---- MODULE Spec2Model ----
(***************************************************************************)
(* Payment -> webhook -> signed QR credential -> check-in pipeline of      *)
(* src/app.py (Flask).  Strings that the code strips or joins (holder      *)
(* names, transaction ids, timestamps) are sequences of characters; the    *)
(* HMAC is the ideal keyed MAC (equal digests iff equal key and message).  *)
(***************************************************************************)
EXTENDS Integers, Sequences, FiniteSets, TLC

VARIABLES
    TX_STORE,   \* app.py:48   dict txid -> record (a function with a growing domain)
    secret,     \* app.py:29   FEDAPAY_WEBHOOK_SECRET of this deployment
    clock,      \* datetime.utcnow() as last observed (app.py:82)
    req,        \* the last HTTP request handled: its endpoint and its input
    resp,       \* the response to it
    admitted,   \* how many times in a row /api/verify has accepted the same text
    wallet,     \* the credential text a holder keeps from the last paid status answer
    thr         \* webhook handler threads in flight (used by SpecConc only)

vars == <<TX_STORE, secret, clock, req, resp, admitted, wallet, thr>>

----------------------------------------------------------------------------
(* Bounds of the model *)
MaxClock == 1
NThreads == 2
MaxAdmitted == 2

(* Program constants *)
MAX_LEN == 280
EVENT_PRICE_XOF == 100
EVENT_CURRENCY == "XOF"
QR_SIGNING_KEY == "change-me-signing-key"
FEDAPAY_ENV == "live"

----------------------------------------------------------------------------
(* Strings *)

WS == " "

RECURSIVE LStrip(_)
LStrip(s) == IF s # <<>> /\ Head(s) = WS THEN LStrip(Tail(s)) ELSE s

RECURSIVE RStrip(_)
RStrip(s) == IF s # <<>> /\ s[Len(s)] = WS THEN RStrip(SubSeq(s, 1, Len(s) - 1)) ELSE s

\* str.strip()
Strip(s) == RStrip(LStrip(s))

\* sep.join(parts)
RECURSIVE Join(_, _)
Join(sep, parts) ==
    IF parts = <<>> THEN <<>>
    ELSE IF Len(parts) = 1 THEN parts[1]
    ELSE parts[1] \o <<sep>> \o Join(sep, Tail(parts))

\* str.upper() on the currency codes that occur
Upper(s) == CASE s = "xof" -> "XOF" [] s = "eur" -> "EUR" [] OTHER -> s

\* str.lower() on the event and status words that occur
Lower(s) ==
    CASE s = "Transaction.Approved" -> "transaction.approved"
      [] s = "APPROVED" -> "approved"
      [] OTHER -> s

\* datetime.utcnow().isoformat() + "Z"
IsoFormat(t) == <<ToString(t), "Z">>

\* hmac.new(key, msg, sha256).hexdigest()
Hmac(key, msg) == [alg |-> "hmac-sha256", key |-> key, msg |-> msg]

\* an empty / missing digest string
NoSig == [alg |-> "", key |-> "", msg |-> <<>>]

----------------------------------------------------------------------------
(* Python's `a or b` on strings: the first non-empty one *)
OrElse(a, b) == IF a # <<>> THEN a ELSE b

(* Holder names and transaction ids that occur *)
Inconnu == <<"I", "n", "c", "o", "n", "n", "u">>
LongName == [i \in 1..(MAX_LEN + 1) |-> "x"]
TX1 == <<"tx_1">>
TX2 == <<"tx_2">>
UNKNOWN == <<"unknown">>

----------------------------------------------------------------------------
(* Credential: build_payload, app.py:64-89 *)

\* the canonical message nom|prenom|txid|ts (app.py:83 and app.py:362)
CanonicalMsg(nom, prenom, txid, ts) == Join("|", <<nom, prenom, txid, ts>>)

\* the dict json.dumps writes and json.loads reads back (app.py:86-89)
Payload(nom, prenom, txid, ts, sig) ==
    [nom |-> nom, prenom |-> prenom, txid |-> txid, ts |-> ts, sig |-> sig]

NoPayload == Payload(<<>>, <<>>, <<>>, <<>>, NoSig)

\* build_payload(nom, prenom, txid) called at time now:
\* code 200 with the signed payload, or the abort status
build_payload(nom0, prenom0, txid0, now) ==
    LET nom == Strip(nom0)
        prenom == Strip(prenom0)
        txid == Strip(txid0)
        ts == IsoFormat(now)
        sig == Hmac(QR_SIGNING_KEY, CanonicalMsg(nom, prenom, txid, ts))
    IN  IF nom = <<>> \/ prenom = <<>>
        THEN [code |-> 400, payload |-> NoPayload]
        ELSE IF Len(nom) > MAX_LEN \/ Len(prenom) > MAX_LEN
        THEN [code |-> 413, payload |-> NoPayload]
        ELSE IF FEDAPAY_ENV = "live" /\ txid = <<>>
        THEN [code |-> 400, payload |-> NoPayload]
        ELSE [code |-> 200, payload |-> Payload(nom, prenom, txid, ts, sig)]

\* png_bytes_to_data_url(make_qr_png(qr_json)): an injective rendering of the text
QrDataUrl(payload) == <<payload>>

\* the text a scanner reads back from a rendered credential
Scan(qr) == qr[1]

----------------------------------------------------------------------------
(* Transaction records, app.py:48-59 *)

Record(status, amount, currency, nom, prenom, email) ==
    [status |-> status, amount |-> amount, currency |-> currency,
     nom |-> nom, prenom |-> prenom, email |-> email,
     qr_png_b64 |-> <<>>, ts |-> <<>>, sig |-> NoSig]

\* TX_STORE[key] = rec
StorePut(st, key, rec) ==
    [k \in DOMAIN st \cup {key} |-> IF k = key THEN rec ELSE st[k]]

\* TX_STORE.setdefault(key, rec)
SetDefault(st, key, rec) == IF key \in DOMAIN st THEN st ELSE StorePut(st, key, rec)

EmptyStore == [k \in {} |-> NoPayload]

----------------------------------------------------------------------------
(* Webhook: authentication and parsing, app.py:233-278 *)

\* _verify_signature without the refusal of an empty secret
_verify_signature_AcceptsNoSecret(raw_body, signature_header, sec) ==
    IF signature_header = NoSig
    THEN FALSE
    ELSE Hmac(sec, raw_body) = signature_header

\* _verify_signature(raw_body, signature_header, secret)
_verify_signature(raw_body, signature_header, sec) ==
    IF sec = "" \/ signature_header = NoSig
    THEN FALSE
    ELSE Hmac(sec, raw_body) = signature_header

\* a currency as it arrives: a code string, a nested object, or null
CurStr(code) == [shape |-> "str", text |-> code, iso |-> "", code |-> ""]
CurDict(iso, code) == [shape |-> "dict", text |-> "", iso |-> iso, code |-> code]
CurNull == [shape |-> "null", text |-> "", iso |-> "", code |-> ""]

\* _extract_currency(tx_currency)
_extract_currency(c) ==
    IF c.shape = "dict"
    THEN Upper(IF c.iso # "" THEN c.iso ELSE c.code)
    ELSE Upper(c.text)

\* _extract_txid(tx_obj)
_extract_txid(tx) == Strip(OrElse(tx.id, OrElse(tx.reference, tx.transaction_id)))

\* an amount as it arrives: a number, null, or text that is no number
AmtNum(v) == [kind |-> "num", val |-> v]
AmtNull == [kind |-> "null", val |-> 0]
AmtText == [kind |-> "text", val |-> 0]

\* int(tx.get("amount") or 0) raises ValueError on text that is no number
AmountRaises(a) == a.kind = "text"
AmountOf(a) == IF a.kind = "num" THEN a.val ELSE 0

\* the locals of webhook_fedapay after app.py:260-278
ParseNotification(tx) ==
    LET status == Lower(tx.status)
        amount == AmountOf(tx.amount)
        currency == _extract_currency(tx.currency)
    IN  [event |-> Lower(tx.event),
         status |-> status,
         amount |-> amount,
         currency |-> currency,
         txid |-> _extract_txid(tx),
         prenom |-> OrElse(Strip(tx.first_name), OrElse(tx.meta_prenom, Inconnu)),
         nom |-> OrElse(Strip(tx.last_name), OrElse(tx.meta_nom, Inconnu)),
         email |-> tx.meta_email,
         paid_ok |-> status \in {"approved", "paid", "success", "completed"},
         money_ok |-> amount = EVENT_PRICE_XOF /\ currency \in {"XOF", "CFA", "FCFA"}]

\* a key that falls back to the first transaction instead of "unknown"
StoreKey_FallsBackToTx(p) == OrElse(p.txid, TX1)

\* txid or "unknown" (app.py:281)
StoreKey(p) == OrElse(p.txid, UNKNOWN)

\* the gate without the check of the event name
Gate_IgnoresEvent(p) == p.paid_ok /\ p.money_ok /\ p.txid # <<>>

\* the gate without the amount and currency check
Gate_IgnoresMoney(p) == p.event = "transaction.approved" /\ p.paid_ok /\ p.txid # <<>>

\* the issuance gate (app.py:290)
Gate(p) == p.event = "transaction.approved" /\ p.paid_ok /\ p.money_ok /\ p.txid # <<>>

----------------------------------------------------------------------------
(* Webhook: store steps, app.py:281-303 *)

\* rec = TX_STORE.setdefault(txid or "unknown", {...})   (app.py:281-286)
WebhookSetDefault(st, p) ==
    SetDefault(st, StoreKey(p),
               Record("pending", p.amount, p.currency, p.nom, p.prenom, p.email))

\* a merge that also takes the reported status when it is no approval
WebhookMerge_TakesStatus(rec, p, oldAmount, oldCurrency) ==
    [rec EXCEPT !.amount = IF p.amount # 0 THEN p.amount ELSE oldAmount,
                !.currency = IF p.currency # "" THEN p.currency ELSE oldCurrency,
                !.nom = p.nom, !.prenom = p.prenom, !.email = p.email,
                !.status = IF p.paid_ok THEN @ ELSE "pending"]

\* rec.update({amount, currency, nom, prenom, email})   (app.py:288)
\* oldAmount, oldCurrency are the rec.get(...) values read for the `or`
WebhookMerge(rec, p, oldAmount, oldCurrency) ==
    [rec EXCEPT !.amount = IF p.amount # 0 THEN p.amount ELSE oldAmount,
                !.currency = IF p.currency # "" THEN p.currency ELSE oldCurrency,
                !.nom = p.nom, !.prenom = p.prenom, !.email = p.email]

\* an attach that stores the credential and leaves the status as it is
WebhookAttach_KeepsStatus(rec, payload) ==
    [rec EXCEPT !.qr_png_b64 = QrDataUrl(payload),
                !.ts = payload.ts,
                !.sig = payload.sig]

\* rec.update({status: paid, qr_png_b64, ts, sig})   (app.py:297-303)
WebhookAttach(rec, payload) ==
    [rec EXCEPT !.status = "paid",
                !.qr_png_b64 = QrDataUrl(payload),
                !.ts = payload.ts,
                !.sig = payload.sig]

\* webhook_fedapay run without interruption on store st at time now:
\* the store it leaves, its HTTP status, and whether it signed a credential
webhook_fedapay(st, sec, n, now) ==
    IF ~_verify_signature(n.body, n.header, sec)
    THEN [store |-> st, code |-> 401, signed |-> FALSE]
    ELSE IF AmountRaises(n.body.amount)
    THEN [store |-> st, code |-> 500, signed |-> FALSE]
    ELSE
      LET p == ParseNotification(n.body)
          key == StoreKey(p)
          st1 == WebhookSetDefault(st, p)
          st2 == [st1 EXCEPT ![key] =
                     WebhookMerge(@, p, st1[key].amount, st1[key].currency)]
          built == build_payload(p.nom, p.prenom, p.txid, now)
      IN  IF ~Gate(p)
          THEN [store |-> st2, code |-> 200, signed |-> FALSE]
          ELSE IF built.code # 200
          THEN [store |-> st2, code |-> built.code, signed |-> FALSE]
          ELSE [store |-> [st2 EXCEPT ![key] = WebhookAttach(@, built.payload)],
                code |-> 200, signed |-> TRUE]

----------------------------------------------------------------------------
(* HTTP responses: status code and the JSON fields the claims read *)

Response(op, code) ==
    [op |-> op, code |-> code, status |-> "", nom |-> <<>>, prenom |-> <<>>,
     txid |-> <<>>, ts |-> <<>>, qr |-> <<>>]

----------------------------------------------------------------------------
(* Status query, app.py:312-339 *)

api_tx_status(st, id) ==
    LET txid == Strip(id) IN
    IF txid = <<>>
    THEN Response("tx-status", 400)
    ELSE IF txid \notin DOMAIN st
    THEN [Response("tx-status", 200) EXCEPT !.status = "pending"]
    ELSE IF st[txid].status = "paid"
    THEN [Response("tx-status", 200) EXCEPT
             !.status = "paid", !.nom = st[txid].nom, !.prenom = st[txid].prenom,
             !.qr = st[txid].qr_png_b64, !.txid = txid, !.ts = st[txid].ts]
    ELSE [Response("tx-status", 200) EXCEPT !.status = st[txid].status]

----------------------------------------------------------------------------
(* Check-in, app.py:341-374 *)

\* a scanned text: JSON of a payload object, or something json.loads rejects
QrText(obj) == [json |-> TRUE, obj |-> obj]
NotJson == [json |-> FALSE, obj |-> NoPayload]

\* the body of the try block (app.py:352-372): the response it returns, or the
\* status of the exception it raises
VerifyTry(st, qr_text) ==
    LET obj == qr_text.obj
        nom == Strip(obj.nom)
        prenom == Strip(obj.prenom)
        txid == Strip(obj.txid)
        ts == obj.ts
        sig == obj.sig
        expected == Hmac(QR_SIGNING_KEY, CanonicalMsg(nom, prenom, txid, ts))
    IN  IF ~qr_text.json
        THEN Response("verify", 500)
        ELSE IF nom = <<>> \/ prenom = <<>> \/ txid = <<>> \/ ts = <<>> \/ sig = NoSig
        THEN Response("verify", 400)
        ELSE IF expected # sig
        THEN Response("verify", 401)
        ELSE IF txid \notin DOMAIN st \/ st[txid].status # "paid"
        THEN Response("verify", 403)
        ELSE [Response("verify", 200) EXCEPT
                 !.nom = nom, !.prenom = prenom, !.txid = txid, !.ts = ts]

\* except Exception: abort(400, "QR invalide")   (app.py:373-374)
\* abort() raises an HTTPException, which is an Exception
ExceptException(r) == IF r.code = 200 THEN r ELSE Response("verify", 400)

api_verify(st, qr_text) == ExceptException(VerifyTry(st, qr_text))

----------------------------------------------------------------------------
(* Intent creation, app.py:158-230 *)

\* the gateway's answer: an exception (timeout, transport, non-2xx, bad JSON)
\* or a JSON object with the fields the code looks at
GwFail == [ok |-> FALSE, data_link |-> "", data_url |-> "", data_checkout_url |-> "",
           link |-> "", url |-> "", data_id |-> <<>>, id |-> <<>>]
GwJson(data_link, url, data_id, id) ==
    [ok |-> TRUE, data_link |-> data_link, data_url |-> "", data_checkout_url |-> "",
     link |-> "", url |-> url, data_id |-> data_id, id |-> id]

\* a pay_url that falls back to a default page when the answer has no link
PayUrl_NeverEmpty(gw) ==
    IF gw.data_link # "" THEN gw.data_link
    ELSE IF gw.url # "" THEN gw.url
    ELSE "https://pay/default"

\* pay_url (app.py:202-208)
PayUrl(gw) ==
    IF gw.data_link # "" THEN gw.data_link
    ELSE IF gw.data_url # "" THEN gw.data_url
    ELSE IF gw.data_checkout_url # "" THEN gw.data_checkout_url
    ELSE IF gw.link # "" THEN gw.link
    ELSE gw.url

\* pay_intent on store st: the store it leaves and its response
pay_intent(st, body, gw) ==
    LET nom == Strip(body.nom)
        prenom == Strip(body.prenom)
        email == Strip(body.email)
        txid == OrElse(gw.data_id, gw.id)
    IN  IF nom = <<>> \/ prenom = <<>>
        THEN [store |-> st, resp |-> Response("pay-intent", 400), called |-> FALSE]
        ELSE IF ~gw.ok
        THEN [store |-> st, resp |-> Response("pay-intent", 502), called |-> TRUE]
        ELSE IF PayUrl(gw) = ""
        THEN [store |-> st, resp |-> Response("pay-intent", 502), called |-> TRUE]
        ELSE [store |-> IF txid # <<>>
                        THEN StorePut(st, txid,
                                 Record("pending", EVENT_PRICE_XOF, EVENT_CURRENCY,
                                        nom, prenom, email))
                        ELSE st,
              resp |-> [Response("pay-intent", 200) EXCEPT !.txid = txid],
              called |-> TRUE]

----------------------------------------------------------------------------
(* Inputs *)

NA == <<"a">>
NB == <<"b">>
NC == <<"c">>
NAB == <<"a", "|", "b">>
NBC == <<"b", "|", "c">>
Blank == <<WS>>
PadA == <<WS, "a">>
Mail == <<"e@x">>

\* data.object of a notification
Tx(event, status, amount, currency, id, reference, holder) ==
    [event |-> event, status |-> status, amount |-> amount, currency |-> currency,
     id |-> id, reference |-> reference, transaction_id |-> <<>>,
     last_name |-> holder[1], first_name |-> holder[2],
     meta_nom |-> holder[3], meta_prenom |-> holder[4], meta_email |-> holder[5]]

\* <<customer.last_name, customer.first_name, metadata.nom, metadata.prenom, metadata.email>>
HolderAB == <<NA, NB, <<>>, <<>>, <<>>>>
HolderShiftL == <<NAB, NC, <<>>, <<>>, <<>>>>
HolderBlank == <<<<>>, <<>>, Blank, NB, Mail>>
HolderPadded == <<<<>>, <<>>, PadA, NB, Mail>>
HolderNone == <<<<>>, <<>>, <<>>, <<>>, <<>>>>
HolderLong == <<<<>>, <<>>, LongName, NB, <<>>>>

Holders == {HolderAB, HolderShiftL, HolderPadded, HolderBlank, HolderLong}

Approved(amount, currency, id, reference, holder) ==
    Tx("transaction.approved", "approved", amount, currency, id, reference, holder)

\* notifications that pass the gate for tx_1
ApprovingBodies ==
    {Approved(AmtNum(EVENT_PRICE_XOF), CurStr("XOF"), TX1, <<>>, h) : h \in Holders}
    \cup {Tx("Transaction.Approved", "APPROVED", AmtNum(EVENT_PRICE_XOF),
             CurDict("xof", ""), <<>>, TX1, HolderAB)}

\* approved, but the amount or the currency is not the expected one
MismatchBodies ==
    {Approved(AmtNum(50), CurStr("XOF"), TX1, <<>>, HolderAB),
     Approved(AmtNum(EVENT_PRICE_XOF), CurStr("EUR"), TX1, <<>>, HolderAB),
     Approved(AmtNull, CurNull, TX1, <<>>, HolderNone)}

\* not reporting approval
PendingBodies ==
    {Tx("transaction.created", "pending", AmtNum(EVENT_PRICE_XOF), CurStr("XOF"),
        TX1, <<>>, h) : h \in {HolderAB, HolderNone}}
    \cup {Tx("transaction.approved", "pending", AmtNum(EVENT_PRICE_XOF), CurStr("XOF"),
             TX1, <<>>, HolderAB),
          Tx("transaction.declined", "approved", AmtNum(EVENT_PRICE_XOF), CurStr("XOF"),
             TX1, <<>>, HolderAB)}

\* no transaction id can be derived; an amount that is no number
OddBodies ==
    {Approved(AmtNum(EVENT_PRICE_XOF), CurStr("XOF"), <<>>, <<>>, HolderAB),
     Approved(AmtText, CurStr("XOF"), TX1, <<>>, HolderAB)}

Bodies == ApprovingBodies \cup MismatchBodies \cup PendingBodies \cup OddBodies

Secrets == {"", "change-me-webhook-secret"}

\* the X-FEDAPAY-SIGNATURE values a sender can attach to body b
Headers(b) == {NoSig, Hmac("change-me-webhook-secret", b), Hmac("", b), Hmac("guess", b)}

Signed(b) == [body |-> b, header |-> Hmac("change-me-webhook-secret", b)]

\* every body as the gateway signs it; one body with each other header
Notifications ==
    {Signed(b) : b \in Bodies}
    \cup {[body |-> Approved(AmtNum(EVENT_PRICE_XOF), CurStr("XOF"), TX1, <<>>, HolderAB),
           header |-> h] :
              h \in Headers(Approved(AmtNum(EVENT_PRICE_XOF), CurStr("XOF"), TX1, <<>>, HolderAB))}

\* the bodies a front end posts to /pay-intent
IntentBodies ==
    {[nom |-> NA, prenom |-> NB, email |-> Mail],
     [nom |-> PadA, prenom |-> NB, email |-> <<>>],
     [nom |-> <<>>, prenom |-> NB, email |-> <<>>],
     [nom |-> Blank, prenom |-> NB, email |-> <<>>],
     [nom |-> LongName, prenom |-> NB, email |-> <<>>]}

\* the answers of the payment gateway
GatewayAnswers ==
    {GwFail,
     GwJson("https://pay/1", "", TX1, <<>>),
     GwJson("", "https://pay/1", <<>>, TX1),
     GwJson("https://pay/1", "", <<>>, <<>>),
     GwJson("", "", TX1, <<>>)}

\* every body with a gateway that answers; one body with each other answer
Intents ==
    {<<b, GwJson("https://pay/1", "", TX1, <<>>)>> : b \in IntentBodies}
    \cup {<<[nom |-> NA, prenom |-> NB, email |-> Mail], gw>> : gw \in GatewayAnswers}

\* the ids a front end polls
StatusIds == {<<>>, TX1, TX2}

\* the other ways to split the text nom|prenom at a "|"
Resplits(nom, prenom) ==
    LET full == nom \o <<"|">> \o prenom IN
    {<<SubSeq(full, 1, i - 1), SubSeq(full, i + 1, Len(full))>> :
        i \in {j \in 1..Len(full) : full[j] = "|" /\ j # Len(nom) + 1}}

\* the payloads that differ from credential c in exactly one field
Tampered(c) ==
    {[c EXCEPT !.nom = <<"z">>],
     [c EXCEPT !.txid = TX2],
     [c EXCEPT !.ts = <<"9", "Z">>],
     [c EXCEPT !.sig = Hmac("guess", c.sig.msg)],
     [c EXCEPT !.sig = NoSig]}

\* credential c with the "|" between last and first name moved
Shifted(c) == {[c EXCEPT !.nom = s[1], !.prenom = s[2]] : s \in Resplits(c.nom, c.prenom)}

\* credential c with white space around a field
Padded(c) == {[c EXCEPT !.nom = <<WS>> \o @]}

\* what a scanner can present when the holder keeps credential c
ScanTexts(c) ==
    {NotJson} \cup
    (IF c = NoPayload THEN {}
     ELSE {QrText(q) : q \in {c} \cup Tampered(c) \cup Shifted(c) \cup Padded(c)})

----------------------------------------------------------------------------
(* The program as a state machine: every handler runs without interruption *)

NoThreads == <<>>

Request(op, arg) == [op |-> op, arg |-> arg]
NoRequest == Request("", <<>>)

Init ==
    /\ TX_STORE = EmptyStore
    /\ secret \in Secrets
    /\ clock = 0
    /\ req = NoRequest
    /\ resp = Response("", 0)
    /\ admitted = 0
    /\ wallet = NoPayload
    /\ thr = NoThreads

\* time passes
Tick ==
    /\ clock < MaxClock
    /\ clock' = clock + 1
    /\ UNCHANGED <<TX_STORE, secret, req, resp, admitted, wallet, thr>>

\* POST /pay-intent
PayIntent(body, gw) ==
    LET r == pay_intent(TX_STORE, body, gw) IN
    /\ TX_STORE' = r.store
    /\ req' = Request("pay-intent", <<body, gw>>)
    /\ resp' = r.resp
    /\ admitted' = 0
    /\ UNCHANGED <<secret, clock, wallet, thr>>

\* POST /webhook/fedapay
Webhook(n) ==
    LET r == webhook_fedapay(TX_STORE, secret, n, clock) IN
    /\ TX_STORE' = r.store
    /\ req' = Request("webhook", n)
    /\ resp' = Response("webhook", r.code)
    /\ admitted' = 0
    /\ UNCHANGED <<secret, clock, wallet, thr>>

\* a status query that looks the record up with setdefault instead of get
TxStatus_CreatesRecord(id) ==
    LET r == api_tx_status(TX_STORE, id) IN
    /\ TX_STORE' = IF Strip(id) = <<>> THEN TX_STORE
                   ELSE SetDefault(TX_STORE, Strip(id),
                                   Record("pending", 0, "", <<>>, <<>>, <<>>))
    /\ req' = Request("tx-status", id)
    /\ resp' = r
    /\ admitted' = 0
    /\ wallet' = IF r.qr # <<>> THEN Scan(r.qr) ELSE wallet
    /\ UNCHANGED <<secret, clock, thr>>

\* GET /api/tx-status; the front end keeps the credential it is shown
TxStatus(id) ==
    LET r == api_tx_status(TX_STORE, id) IN
    /\ req' = Request("tx-status", id)
    /\ resp' = r
    /\ admitted' = 0
    /\ wallet' = IF r.qr # <<>> THEN Scan(r.qr) ELSE wallet
    /\ UNCHANGED <<TX_STORE, secret, clock, thr>>

\* POST /api/verify
Verify(qr_text) ==
    LET r == api_verify(TX_STORE, qr_text)
        again == req.op = "verify" /\ req.arg = qr_text /\ resp.code = 200
    IN
    /\ req' = Request("verify", qr_text)
    /\ resp' = r
    /\ admitted' = IF r.code # 200 THEN 0
                   ELSE IF again /\ admitted < MaxAdmitted THEN admitted + 1
                   ELSE IF again THEN admitted
                   ELSE 1
    /\ UNCHANGED <<TX_STORE, secret, clock, wallet, thr>>

Next ==
    \/ Tick
    \/ \E i \in Intents : PayIntent(i[1], i[2])
    \/ \E n \in Notifications : Webhook(n)
    \/ \E id \in StatusIds : TxStatus(id)
    \/ \E q \in ScanTexts(wallet) : Verify(q)

Spec == Init /\ [][Next]_vars

----------------------------------------------------------------------------
(* The webhook handler as threads: one step per store access (a dict        *)
(* operation is atomic under the interpreter lock, a handler is not).       *)
(* rec is a reference to the dict in TX_STORE; when pay_intent replaces     *)
(* the dict under the key (app.py:220) the reference is detached and the    *)
(* handler's later updates no longer reach the store.                       *)

Threads == 1..NThreads

NoParse == ParseNotification(Tx("", "", AmtNull, CurNull, <<>>, <<>>, HolderNone))

Thread(pc, p, live, oldAmount, oldCurrency, payload, code) ==
    [pc |-> pc, p |-> p, live |-> live, oldAmount |-> oldAmount,
     oldCurrency |-> oldCurrency, payload |-> payload, code |-> code]

IdleThread == Thread("idle", NoParse, FALSE, 0, "", NoPayload, 0)

ConcBodies ==
    {Approved(AmtNum(EVENT_PRICE_XOF), CurStr("XOF"), TX1, <<>>, HolderAB),
     Tx("transaction.created", "pending", AmtNull, CurNull, TX1, <<>>, HolderNone)}

ConcNotifications ==
    {Signed(b) : b \in ConcBodies}
    \cup {[body |-> Approved(AmtNum(EVENT_PRICE_XOF), CurStr("XOF"), TX1, <<>>, HolderAB),
           header |-> NoSig]}

InitConc ==
    /\ TX_STORE = EmptyStore
    /\ secret = "change-me-webhook-secret"
    /\ clock = 0
    /\ req = NoRequest
    /\ resp = Response("", 0)
    /\ admitted = 0
    /\ wallet = NoPayload
    /\ thr = [t \in Threads |-> IdleThread]

\* app.py:254-278: authenticate and parse; no store access
WhStart(t, n) ==
    /\ thr[t].pc = "idle"
    /\ thr' = [thr EXCEPT ![t] =
          IF ~_verify_signature(n.body, n.header, secret)
          THEN [@ EXCEPT !.pc = "done", !.code = 401]
          ELSE IF AmountRaises(n.body.amount)
          THEN [@ EXCEPT !.pc = "done", !.code = 500]
          ELSE [@ EXCEPT !.pc = "setdefault", !.p = ParseNotification(n.body)]]
    /\ UNCHANGED <<TX_STORE, secret, clock, req, resp, admitted, wallet>>

\* app.py:281-286: rec = TX_STORE.setdefault(...)
WhSetDefault(t) ==
    /\ thr[t].pc = "setdefault"
    /\ TX_STORE' = WebhookSetDefault(TX_STORE, thr[t].p)
    /\ thr' = [thr EXCEPT ![t] = [@ EXCEPT !.pc = "read", !.live = TRUE]]
    /\ UNCHANGED <<secret, clock, req, resp, admitted, wallet>>

\* app.py:288: the argument of rec.update is evaluated (rec.get("amount"), ...)
WhRead(t) ==
    /\ thr[t].pc = "read"
    /\ thr' = [thr EXCEPT ![t] =
          IF thr[t].live
          THEN [@ EXCEPT !.pc = "merge",
                         !.oldAmount = TX_STORE[StoreKey(thr[t].p)].amount,
                         !.oldCurrency = TX_STORE[StoreKey(thr[t].p)].currency]
          ELSE [@ EXCEPT !.pc = "merge"]]
    /\ UNCHANGED <<TX_STORE, secret, clock, req, resp, admitted, wallet>>

\* app.py:288: rec.update(...)
WhMerge(t) ==
    /\ thr[t].pc = "merge"
    /\ TX_STORE' =
          IF thr[t].live
          THEN [TX_STORE EXCEPT ![StoreKey(thr[t].p)] =
                   WebhookMerge(@, thr[t].p, thr[t].oldAmount, thr[t].oldCurrency)]
          ELSE TX_STORE
    /\ thr' = [thr EXCEPT ![t] = [@ EXCEPT !.pc = "sign"]]
    /\ UNCHANGED <<secret, clock, req, resp, admitted, wallet>>

\* app.py:290-297: the gate, then build_payload reads the clock and signs
WhSign(t) ==
    /\ thr[t].pc = "sign"
    /\ LET p == thr[t].p
           built == build_payload(p.nom, p.prenom, p.txid, clock)
       IN  thr' = [thr EXCEPT ![t] =
              IF ~Gate(p) THEN [@ EXCEPT !.pc = "done", !.code = 200]
              ELSE IF built.code # 200 THEN [@ EXCEPT !.pc = "done", !.code = built.code]
              ELSE [@ EXCEPT !.pc = "attach", !.payload = built.payload]]
    /\ UNCHANGED <<TX_STORE, secret, clock, req, resp, admitted, wallet>>

\* app.py:298-310: rec.update({status: paid, ...}) and the acknowledgement
WhAttach(t) ==
    /\ thr[t].pc = "attach"
    /\ TX_STORE' =
          IF thr[t].live
          THEN [TX_STORE EXCEPT ![StoreKey(thr[t].p)] = WebhookAttach(@, thr[t].payload)]
          ELSE TX_STORE
    /\ thr' = [thr EXCEPT ![t] = [@ EXCEPT !.pc = "done", !.code = 200]]
    /\ UNCHANGED <<secret, clock, req, resp, admitted, wallet>>

\* the references a replaced dict leaves behind
Detach(th, txid) ==
    [t \in DOMAIN th |->
        IF th[t].live /\ StoreKey(th[t].p) = txid
        THEN [th[t] EXCEPT !.live = FALSE] ELSE th[t]]

\* POST /pay-intent while webhook handlers are in flight
PayIntentConc(body, gw) ==
    LET r == pay_intent(TX_STORE, body, gw) IN
    /\ TX_STORE' = r.store
    /\ req' = Request("pay-intent", <<body, gw>>)
    /\ resp' = r.resp
    /\ thr' = IF r.resp.code = 200 /\ r.resp.txid # <<>>
              THEN Detach(thr, r.resp.txid) ELSE thr
    /\ admitted' = 0
    /\ UNCHANGED <<secret, clock, wallet>>

NextConc ==
    \/ Tick
    \/ \E t \in Threads, n \in ConcNotifications : WhStart(t, n)
    \/ \E t \in Threads : WhSetDefault(t)
    \/ \E t \in Threads : WhRead(t)
    \/ \E t \in Threads : WhMerge(t)
    \/ \E t \in Threads : WhSign(t)
    \/ \E t \in Threads : WhAttach(t)
    \/ PayIntentConc([nom |-> NA, prenom |-> NB, email |-> Mail],
                     GwJson("https://pay/1", "", TX1, <<>>))

SpecConc == InitConc /\ [][NextConc]_vars

----------------------------------------------------------------------------
(* Vocabulary of the properties *)

\* the notification passes authentication in this deployment
Authentic(n) == _verify_signature(n.body, n.header, secret)

Parsed(n) == ParseNotification(n.body)

\* an approval event with an approval status, the expected price and an
\* accepted currency, for a transaction id
Approving(n) == Authentic(n) /\ ~AmountRaises(n.body.amount) /\ Gate(Parsed(n))

\* an approval whose amount or currency is not the expected one
Mismatched(n) ==
    /\ Authentic(n)
    /\ Parsed(n).event = "transaction.approved"
    /\ Parsed(n).paid_ok
    /\ \/ AmountRaises(n.body.amount)
       \/ Parsed(n).amount # EVENT_PRICE_XOF
       \/ Parsed(n).currency \notin {"XOF", "CFA", "FCFA"}

ReportsPending(n) == Authentic(n) /\ Parsed(n).status = "pending"

\* the credential a record carries: its timestamp, signature and rendering
CredentialOf(rec) == <<rec.ts, rec.sig, rec.qr_png_b64>>

IsPaid(st, key) == key \in DOMAIN st /\ st[key].status = "paid"

\* the header is missing, is not the HMAC of the body under the configured
\* secret, or no secret is configured
BadAuth(n) ==
    \/ secret = ""
    \/ n.header = NoSig
    \/ n.header # Hmac(secret, n.body)

\* the payload's signature is the HMAC of its canonical message
SigValid(obj) ==
    obj.sig = Hmac(QR_SIGNING_KEY,
                   CanonicalMsg(Strip(obj.nom), Strip(obj.prenom), Strip(obj.txid), obj.ts))

\* the payload has every field verify asks for
Complete(obj) ==
    /\ Strip(obj.nom) # <<>> /\ Strip(obj.prenom) # <<>> /\ Strip(obj.txid) # <<>>
    /\ obj.ts # <<>> /\ obj.sig # NoSig

\* what a payload says, white space around its fields aside
Fields(obj) == <<Strip(obj.nom), Strip(obj.prenom), Strip(obj.txid), obj.ts, obj.sig>>

\* this step is the handling of the request recorded in req'
WebhookStep == req'.op = "webhook" /\ Webhook(req'.arg)
PayIntentStep == req'.op = "pay-intent" /\ PayIntent(req'.arg[1], req'.arg[2])
TxStatusStep == req'.op = "tx-status" /\ TxStatus(req'.arg)

\* the holder names of an intent body pass the check at app.py:169
NamesGiven(body) == Strip(body.nom) # <<>> /\ Strip(body.prenom) # <<>>

\* the gateway call raised, or its answer has no payment link
GatewayFailed(gw) ==
    \/ ~gw.ok
    \/ /\ gw.data_link = "" /\ gw.data_url = "" /\ gw.data_checkout_url = ""
       /\ gw.link = "" /\ gw.url = ""

\* the keys whose record differs between two stores
Changed(st, st2) ==
    {k \in DOMAIN st \cup DOMAIN st2 :
        k \notin DOMAIN st \/ k \notin DOMAIN st2 \/ st[k] # st2[k]}

----------------------------------------------------------------------------
(* C1: delivering the same approving notification again, right after it was *)
(* acknowledged, is acknowledged and leaves the record (status, issuance    *)
(* timestamp, signature) as the first delivery left it.                     *)
C1_IdempotentIssuance ==
    [][(/\ req.op = "webhook"
        /\ resp.code = 200
        /\ Approving(req.arg)
        /\ WebhookStep
        /\ req' = req)
       => (/\ resp'.code = 200
           /\ TX_STORE'[StoreKey(Parsed(req.arg))] = TX_STORE[StoreKey(Parsed(req.arg))])]_vars

(* C2: when every handler thread has returned from an approving            *)
(* notification of tx_1 (no intent replaced the record meanwhile), every   *)
(* one answered 200 and they signed one and the same credential, which is  *)
(* the one the record carries.                                             *)
C2_ExactlyOnceConcurrent ==
    (\A t \in Threads :
        thr[t].pc = "done" /\ thr[t].live /\ Gate(thr[t].p) /\ thr[t].p.txid = TX1)
    => (/\ \A t \in Threads : thr[t].code = 200
        /\ Cardinality({thr[t].payload : t \in Threads}) = 1
        /\ \A t \in Threads : thr[t].payload.ts = TX_STORE[TX1].ts)

(* C3: a verify of the payload that the previous verify accepted is        *)
(* rejected: no text is accepted more than once in a row.                  *)
C3_AtMostOnceConsumption == admitted <= 1

(* C4 as stated: after an authenticated approved notification with a wrong *)
(* amount or currency the record is not Paid and the status query returns  *)
(* no credential.                                                          *)
C4_MismatchLeavesNotPaid ==
    (req.op = "webhook" /\ Mismatched(req.arg))
    => (/\ ~IsPaid(TX_STORE, StoreKey(Parsed(req.arg)))
        /\ api_tx_status(TX_STORE, StoreKey(Parsed(req.arg))).qr = <<>>)

(* C4 amended: an authenticated approved notification with a wrong amount  *)
(* or currency signs nothing and leaves the record's status and credential *)
(* as they were (a record it creates is pending, without credential); a    *)
(* record not Paid before is not Paid after, and the status query then     *)
(* returns no credential.                                                  *)
C4_GateCorrectness ==
    [][(WebhookStep /\ Mismatched(req'.arg))
       => LET key == StoreKey(Parsed(req'.arg)) IN
          /\ key \in DOMAIN TX_STORE =>
                /\ TX_STORE'[key].status = TX_STORE[key].status
                /\ CredentialOf(TX_STORE'[key]) = CredentialOf(TX_STORE[key])
          /\ (key \notin DOMAIN TX_STORE /\ key \in DOMAIN TX_STORE') =>
                /\ TX_STORE'[key].status = "pending"
                /\ CredentialOf(TX_STORE'[key]) = <<<<>>, NoSig, <<>>>>
          /\ ~IsPaid(TX_STORE, key) =>
                /\ ~IsPaid(TX_STORE', key)
                /\ api_tx_status(TX_STORE', key).qr = <<>>]_vars

\* a mismatched approval was acknowledged and its amount recorded
C4_Witness ==
    /\ req.op = "webhook" /\ Mismatched(req.arg) /\ resp.code = 200
    /\ TX1 \in DOMAIN TX_STORE
    /\ TX_STORE[TX1].amount = 50
    /\ TX_STORE[TX1].status = "pending"

(* C5: an authenticated notification reporting Pending for a record that   *)
(* is Paid leaves its status Paid and its credential (timestamp,           *)
(* signature, rendering) unchanged.                                        *)
C5_NoRegression ==
    [][(/\ WebhookStep
        /\ ReportsPending(req'.arg)
        /\ IsPaid(TX_STORE, StoreKey(Parsed(req'.arg))))
       => LET key == StoreKey(Parsed(req'.arg)) IN
          /\ TX_STORE'[key].status = "paid"
          /\ CredentialOf(TX_STORE'[key]) = CredentialOf(TX_STORE[key])]_vars

\* a Pending notification was handled on a Paid record
C5_Witness ==
    /\ req.op = "webhook" /\ ReportsPending(req.arg) /\ resp.code = 200
    /\ IsPaid(TX_STORE, StoreKey(Parsed(req.arg)))
    /\ TX_STORE[TX1].nom = Inconnu

(* C6: a notification whose signature header is missing or is not the HMAC *)
(* of the raw body under the configured secret, or any notification when   *)
(* no secret is configured, is answered 401 and leaves the store unchanged. *)
C6_WebhookAuthentication ==
    [][(WebhookStep /\ BadAuth(req'.arg))
       => (resp'.code = 401 /\ TX_STORE' = TX_STORE)]_vars

\* with no secret configured, a notification signed with the empty key was
\* rejected while the store holds a record
C6_Witness ==
    /\ req.op = "webhook"
    /\ secret = ""
    /\ req.arg.header = Hmac("", req.arg.body)
    /\ resp.code = 401
    /\ TX1 \in DOMAIN TX_STORE

(* C7: every notification that passes authentication is answered 200.      *)
C7_AlwaysAcknowledged ==
    (req.op = "webhook" /\ Authentic(req.arg)) => resp.code = 200

(* C8: a verify of a payload with all fields present is answered 401 when  *)
(* its signature is invalid and 403 when its signature is valid and its    *)
(* transaction is absent or not Paid.                                      *)
C8_DistinctErrorKinds ==
    (req.op = "verify" /\ req.arg.json /\ Complete(req.arg.obj))
    => LET obj == req.arg.obj IN
       /\ ~SigValid(obj) => resp.code = 401
       /\ (SigValid(obj) /\ ~IsPaid(TX_STORE, Strip(obj.txid))) => resp.code = 403

(* C9: a verify of a payload whose (last name, first name, transaction id, *)
(* timestamp, signature), white space around the fields aside, is not that *)
(* of the credential the holder was issued is never accepted.              *)
C9_TamperRejected ==
    (/\ req.op = "verify" /\ req.arg.json
     /\ wallet # NoPayload
     /\ Fields(req.arg.obj) # Fields(wallet))
    => resp.code # 200

(* C10: right after a delivery that made a record Paid, verify of the      *)
(* credential it attached succeeds and returns the record's holder names   *)
(* and its transaction id.                                                 *)
C10_IssueVerifyRoundTrip ==
    (req.op = "webhook" /\ resp.code = 200 /\ Approving(req.arg))
    => LET key == StoreKey(Parsed(req.arg))
           rec == TX_STORE[key]
           r == api_verify(TX_STORE, QrText(Scan(rec.qr_png_b64)))
       IN  /\ r.code = 200
           /\ r.nom = rec.nom
           /\ r.prenom = rec.prenom
           /\ r.txid = key

(* C11: in every reachable state a record carries an issued credential     *)
(* (a signature and an issuance timestamp) if and only if its status is    *)
(* Paid.                                                                   *)
C11_CredentialIffPaid ==
    \A k \in DOMAIN TX_STORE :
        (TX_STORE[k].status = "paid")
        <=> (TX_STORE[k].sig # NoSig /\ TX_STORE[k].ts # <<>>)

\* a new intent replaced the Paid record of tx_1, whose credential the holder
\* keeps, by a pending one without credential
C11_Witness ==
    /\ req.op = "pay-intent" /\ resp.code = 200
    /\ wallet # NoPayload /\ wallet.txid = TX1
    /\ TX_STORE[TX1].status = "pending"
    /\ TX_STORE[TX1].sig = NoSig /\ TX_STORE[TX1].ts = <<>>

(* C12: status is monotonic: no step changes the status of a record other  *)
(* than from pending to paid, and a record that is Paid is still there and *)
(* Paid after every step (intent creation, notification, status query,     *)
(* verify).                                                                *)
C12_StatusMonotonic ==
    [][\A k \in DOMAIN TX_STORE :
          /\ k \in DOMAIN TX_STORE'
          /\ TX_STORE'[k].status # TX_STORE[k].status
                => (TX_STORE[k].status = "pending" /\ TX_STORE'[k].status = "paid")
          /\ TX_STORE[k].status = "paid" => TX_STORE'[k].status = "paid"]_vars

(* C13: an intent whose gateway call fails (time-out, transport error,     *)
(* non-success answer) or whose answer has no payment link is answered     *)
(* with a gateway error (502) and leaves the store unchanged; an accepted  *)
(* intent writes at most one record, and that record is pending.           *)
C13_IntentAllOrNothing ==
    [][PayIntentStep
       => LET body == req'.arg[1]
              gw == req'.arg[2]
          IN  /\ (NamesGiven(body) /\ GatewayFailed(gw))
                    => (resp'.code = 502 /\ TX_STORE' = TX_STORE)
              /\ resp'.code # 200 => TX_STORE' = TX_STORE
              /\ resp'.code = 200
                    => /\ Cardinality(Changed(TX_STORE, TX_STORE')) <= 1
                       /\ Cardinality(DOMAIN TX_STORE' \ DOMAIN TX_STORE) <= 1
                       /\ \A k \in Changed(TX_STORE, TX_STORE') :
                             TX_STORE'[k].status = "pending"]_vars

\* the gateway answered with the id of a Paid record and no payment link:
\* the intent failed and the record is still Paid
C13_Witness ==
    /\ req.op = "pay-intent" /\ resp.code = 502
    /\ req.arg[2].ok /\ req.arg[2].data_id = TX1
    /\ IsPaid(TX_STORE, TX1)

\* a holder name of the intent body is longer than the bounded length
NamesTooLong(body) == Len(Strip(body.nom)) > MAX_LEN \/ Len(Strip(body.prenom)) > MAX_LEN

(* C14: an intent whose last name or first name is empty or longer than    *)
(* the bounded length is rejected with a validation error (400 or 413),    *)
(* the gateway is not called and the store is unchanged.                   *)
C14_IntentValidation ==
    [][(PayIntentStep /\ (~NamesGiven(req'.arg[1]) \/ NamesTooLong(req'.arg[1])))
       => (/\ resp'.code \in {400, 413}
           /\ ~pay_intent(TX_STORE, req'.arg[1], req'.arg[2]).called
           /\ TX_STORE' = TX_STORE)]_vars

(* C15: a notification that is not acknowledged (any answer other than     *)
(* 200: rejected, or failed after authentication) leaves the store exactly *)
(* as it was before the delivery.                                          *)
C15_WebhookAllOrNothing ==
    [][(WebhookStep /\ resp'.code # 200) => TX_STORE' = TX_STORE]_vars

(* C16: a status query, for a transaction id that is known or unknown,     *)
(* leaves the store unchanged: it creates no record and modifies none.     *)
C16_StatusQueryReadOnly ==
    [][TxStatusStep => TX_STORE' = TX_STORE]_vars

\* an unknown id was queried and answered pending while tx_1 is Paid; the
\* store has no record for the queried id
C16_Witness ==
    /\ req.op = "tx-status" /\ req.arg = TX2
    /\ resp.code = 200 /\ resp.status = "pending"
    /\ TX2 \notin DOMAIN TX_STORE
    /\ IsPaid(TX_STORE, TX1)

\* n is an authenticated notification for the non-empty transaction id k
\* whose event signals approval, whose status is an approval status, whose
\* amount is the expected price and whose currency is accepted
ApprovalFor(n, k) ==
    /\ ~BadAuth(n)
    /\ k # <<>>
    /\ Parsed(n).txid = k
    /\ Parsed(n).event = "transaction.approved"
    /\ Parsed(n).status \in {"approved", "paid", "success", "completed"}
    /\ Parsed(n).amount = EVENT_PRICE_XOF
    /\ Parsed(n).currency \in {"XOF", "CFA", "FCFA"}

(* C17: no record is Paid initially, and a record becomes Paid only in the *)
(* handling of an authenticated notification for that same non-empty       *)
(* transaction id whose event signals approval, whose status is an         *)
(* approval status, whose amount is the expected price and whose currency  *)
(* is accepted.                                                            *)
C17_PaidIsSound ==
    [][\A k \in DOMAIN TX_STORE' :
          (IsPaid(TX_STORE', k) /\ ~IsPaid(TX_STORE, k))
          => (req'.op = "webhook" /\ ApprovalFor(req'.arg, k))]_vars

\* the approval of tx_1 that arrived with the transaction id under
\* `reference`, a mixed-case event and a nested currency made the record Paid
C17_Witness ==
    /\ req.op = "webhook" /\ resp.code = 200
    /\ req.arg.body.event = "Transaction.Approved"
    /\ req.arg.body.id = <<>>
    /\ ApprovalFor(req.arg, TX1)
    /\ IsPaid(TX_STORE, TX1)

(* C18: in every reachable state the last name and first name stored in a  *)
(* Paid record are, white space around them aside, the names its stored    *)
(* signature covers: the signature is the HMAC of nom|prenom|txid|ts taken *)
(* from the record.                                                        *)
C18_HolderMatchesSignature ==
    \A k \in DOMAIN TX_STORE :
        TX_STORE[k].status = "paid"
        => TX_STORE[k].sig =
              Hmac(QR_SIGNING_KEY,
                   CanonicalMsg(Strip(TX_STORE[k].nom), Strip(TX_STORE[k].prenom),
                                k, TX_STORE[k].ts))

(* C19: a verify is accepted only for a payload whose issuance timestamp   *)
(* and signature are the ones stored in the record of its transaction id.  *)
C19_OnlyStoredCredentialAccepted ==
    (req.op = "verify" /\ resp.code = 200)
    => LET key == Strip(req.arg.obj.txid) IN
       /\ key \in DOMAIN TX_STORE
       /\ req.arg.obj.ts = TX_STORE[key].ts
       /\ req.arg.obj.sig = TX_STORE[key].sig

\* the transaction ids that appear in an intent (the id the gateway answers)
\* or in a notification
InputTxids ==
    ({OrElse(i[2].data_id, i[2].id) : i \in Intents}
        \cup {_extract_txid(n.body) : n \in Notifications}) \ {<<>>}

====
